---- MODULE Spec2Model ----
(***************************************************************************)
(* Model of the engram command crate: the process entry point              *)
(* (bin/engram.rs), the standalone subcommand's option loading and startup *)
(* sequence (subcmd/standalone.rs), the REPL subcommand (subcmd/repl.rs)   *)
(* and the panic hook (panic_hook.rs).                                     *)
(***************************************************************************)
EXTENDS Integers, Sequences, FiniteSets, TLC

VARIABLES
    cli,            \* the parsed command line (struct Engram with its subcommand)
    file,           \* content of the file named by --config-file
    env,            \* ENGRAM_-prefixed environment variables
    pc,             \* position of main / Commands::execute / Standalone::execute
    hook,           \* the process-wide panic hook (chain of closures)
    logging_ready,  \* a global tracing subscriber has been set
    panics,         \* one trace of hook steps per fatal event
    panic_counter,  \* the "panic_counter" metric
    records,        \* number of error! records emitted by the hook
    resolved,       \* the local `opts` of Standalone::load_options at line 210
    loaded,         \* what load_options returned
    calls,          \* collaborator calls made by Standalone::execute, in order
    art,            \* the handles held by Standalone::execute
    failed,         \* the collaborator calls that returned Err
    result          \* what Commands::execute returned to main

vars == <<cli, file, env, pc, hook, logging_ready, panics, panic_counter,
          records, resolved, loaded, calls, art, failed, result>>

(***************************************************************************)
(* Bounds of the explored inputs.                                          *)
(***************************************************************************)
MaxSettings == 3   \* settings given per launch, over command line, file and environment
MaxInstalls == 3   \* calls of set_panic_hook
MaxPanics == 4     \* fatal events per process
MaxFairSettings == 2   \* settings per launch in the runs that check termination

(***************************************************************************)
(* Option<T>: None is the empty sequence, Some(x) the one-element one.     *)
(***************************************************************************)
None == <<>>
Some(x) == <<x>>
IsSome(o) == o # <<>>
Unwrap(o) == o[1]

Ok(v) == [ok |-> TRUE, val |-> v]
Err(e) == [ok |-> FALSE, err |-> e]

(***************************************************************************)
(* Option structures of the collaborating crates and their defaults.       *)
(***************************************************************************)
DatanodeDefaultRpcAddr == "127.0.0.1:3001"

TlsOptionDefault == [mode |-> "disable", cert_path |-> "", key_path |-> ""]

\* TlsOption::new: the default option with every given part replaced.
TlsOptionNew(mode, cert_path, key_path) ==
    [mode      |-> IF IsSome(mode) THEN Unwrap(mode) ELSE TlsOptionDefault.mode,
     cert_path |-> IF IsSome(cert_path) THEN Unwrap(cert_path)
                   ELSE TlsOptionDefault.cert_path,
     key_path  |-> IF IsSome(key_path) THEN Unwrap(key_path)
                   ELSE TlsOptionDefault.key_path]

HttpOptionsDefault == [addr |-> "127.0.0.1:4000"]
GrpcOptionsDefault == [addr |-> "127.0.0.1:4001"]
MysqlOptionsDefault == [addr |-> "127.0.0.1:4002", tls |-> TlsOptionDefault]
PostgresOptionsDefault == [addr |-> "127.0.0.1:4003", tls |-> TlsOptionDefault]
OpentsdbOptionsDefault == [addr |-> "127.0.0.1:4242"]
InfluxdbOptionsDefault == [enable |-> FALSE]
PromStoreOptionsDefault == [enable |-> TRUE]
WalConfigDefault == [dir |-> None]
StorageConfigDefault == [data_home |-> "/tmp/engram/"]
KvBackendConfigDefault == [file_size |-> "256MB"]
ProcedureConfigDefault == [max_retry_times |-> "3"]
LoggingOptionsDefault == [level |-> None]

FrontendOptionsDefault ==
    [mode          |-> "Standalone",
     http          |-> HttpOptionsDefault,
     grpc          |-> GrpcOptionsDefault,
     mysql         |-> MysqlOptionsDefault,
     postgres      |-> PostgresOptionsDefault,
     opentsdb      |-> OpentsdbOptionsDefault,
     influxdb      |-> InfluxdbOptionsDefault,
     prom_store    |-> PromStoreOptionsDefault,
     meta_client   |-> None,
     user_provider |-> None]

DatanodeOptionsDefault ==
    [node_id       |-> None,
     rpc_addr      |-> DatanodeDefaultRpcAddr,
     wal           |-> WalConfigDefault,
     storage       |-> StorageConfigDefault,
     region_engine |-> <<"Mito", "File">>]

(***************************************************************************)
(* StandaloneOptions and its projections.                                  *)
(***************************************************************************)
StandaloneOptionsDefault ==
    [mode             |-> "Standalone",
     enable_telemetry |-> TRUE,
     http             |-> HttpOptionsDefault,
     grpc             |-> GrpcOptionsDefault,
     mysql            |-> MysqlOptionsDefault,
     postgres         |-> PostgresOptionsDefault,
     opentsdb         |-> OpentsdbOptionsDefault,
     influxdb         |-> InfluxdbOptionsDefault,
     prom_store       |-> PromStoreOptionsDefault,
     wal              |-> WalConfigDefault,
     storage          |-> StorageConfigDefault,
     metadata_store   |-> KvBackendConfigDefault,
     procedure        |-> ProcedureConfigDefault,
     logging          |-> LoggingOptionsDefault,
     user_provider    |-> None,
     region_engine    |-> <<"Mito", "File">>]

frontend_options(self) ==
    [FrontendOptionsDefault EXCEPT
        !.mode = self.mode,
        !.http = self.http,
        !.grpc = self.grpc,
        !.mysql = self.mysql,
        !.postgres = self.postgres,
        !.opentsdb = self.opentsdb,
        !.influxdb = self.influxdb,
        !.prom_store = self.prom_store,
        !.meta_client = None]

\* a projection that also carries the region engines over
datanode_options_WithRegionEngine(self) ==
    [DatanodeOptionsDefault EXCEPT
        !.node_id = Some(0),
        !.wal = self.wal,
        !.storage = self.storage,
        !.region_engine = self.region_engine]

datanode_options(self) ==
    [DatanodeOptionsDefault EXCEPT
        !.node_id = Some(0),
        !.wal = self.wal,
        !.storage = self.storage]

(***************************************************************************)
(* Options::load_layered_options: built-in defaults, overridden by the     *)
(* config file, overridden by the environment.  A layer maps the dotted    *)
(* path of a field to the text given for it.                               *)
(***************************************************************************)
EmptyLayer == [k \in {} |-> ""]

ParseBool(s) == s = "true"
ParseMode(s) == IF s = "distributed" THEN "Distributed" ELSE "Standalone"

\* The text is a value of the field's declared type.
WellTyped(k, v) ==
    CASE k = "influxdb.enable" -> v \in {"true", "false"}
      [] k = "mode" -> v \in {"standalone", "distributed"}
      [] k \in {"mysql.tls.mode", "postgres.tls.mode"} ->
            v \in {"disable", "prefer", "require", "verify_ca", "verify_full"}
      [] OTHER -> TRUE

SetKey(o, k, v) ==
    CASE k = "mode" -> [o EXCEPT !.mode = ParseMode(v)]
      [] k = "http.addr" -> [o EXCEPT !.http.addr = v]
      [] k = "grpc.addr" -> [o EXCEPT !.grpc.addr = v]
      [] k = "mysql.addr" -> [o EXCEPT !.mysql.addr = v]
      [] k = "mysql.tls.mode" -> [o EXCEPT !.mysql.tls.mode = v]
      [] k = "postgres.addr" -> [o EXCEPT !.postgres.addr = v]
      [] k = "postgres.tls.mode" -> [o EXCEPT !.postgres.tls.mode = v]
      [] k = "opentsdb.addr" -> [o EXCEPT !.opentsdb.addr = v]
      [] k = "influxdb.enable" -> [o EXCEPT !.influxdb.enable = ParseBool(v)]
      [] k = "user_provider" -> [o EXCEPT !.user_provider = Some(v)]
      [] k = "storage.data_home" -> [o EXCEPT !.storage.data_home = v]
      [] k = "wal.dir" -> [o EXCEPT !.wal.dir = Some(v)]

RECURSIVE ApplyKeys(_, _, _)
ApplyKeys(o, layer, ks) ==
    IF ks = {} THEN o
    ELSE LET k == CHOOSE x \in ks : TRUE
         IN ApplyKeys(SetKey(o, k, layer[k]), layer, ks \ {k})

\* The environment layer over the file layer.
Overlay(lower, upper) ==
    [k \in DOMAIN lower \cup DOMAIN upper |->
        IF k \in DOMAIN upper THEN upper[k] ELSE lower[k]]

LoadLayeredOptions(config_file, f, e) ==
    LET fileLayer == IF IsSome(config_file) THEN f.kv ELSE EmptyLayer
        merged == Overlay(fileLayer, e)
    IN  IF IsSome(config_file) /\ ~f.parsable
        THEN Err([variant |-> "LoadLayeredConfig", source |-> "file"])
        ELSE IF \E k \in DOMAIN merged : ~WellTyped(k, merged[k])
        THEN Err([variant |-> "LoadLayeredConfig", source |-> "type"])
        ELSE Ok(ApplyKeys(StandaloneOptionsDefault, merged, DOMAIN merged))

(***************************************************************************)
(* Standalone::load_options, statement by statement.                       *)
(***************************************************************************)
\* the mode taken from elsewhere than the subcommand
SetMode_Distributed(opts) == [opts EXCEPT !.mode = "Distributed"]

\* line 163
SetMode(opts) == [opts EXCEPT !.mode = "Standalone"]

\* lines 171-173
ApplyHttpAddr(self, opts) ==
    IF IsSome(self.http_addr)
    THEN [opts EXCEPT !.http.addr = Unwrap(self.http_addr)]
    ELSE opts

\* the guard left out
RpcAddrConflict_Never(self) == FALSE

\* lines 175-178: the frontend address given on the command line is the
\* datanode's default one
RpcAddrConflict(self) ==
    /\ IsSome(self.rpc_addr)
    /\ Unwrap(self.rpc_addr) = DatanodeOptionsDefault.rpc_addr

\* line 186
ApplyRpcAddr(self, opts) ==
    IF IsSome(self.rpc_addr)
    THEN [opts EXCEPT !.grpc.addr = Unwrap(self.rpc_addr)]
    ELSE opts

\* lines 189-193
ApplyMysqlAddr(self, opts, tls_opts) ==
    IF IsSome(self.mysql_addr)
    THEN [opts EXCEPT !.mysql.addr = Unwrap(self.mysql_addr),
                      !.mysql.tls = tls_opts]
    ELSE opts

\* lines 195-199
ApplyPostgresAddr(self, opts, tls_opts) ==
    IF IsSome(self.postgres_addr)
    THEN [opts EXCEPT !.postgres.addr = Unwrap(self.postgres_addr),
                      !.postgres.tls = tls_opts]
    ELSE opts

\* lines 201-204
ApplyOpentsdbAddr(self, opts) ==
    IF IsSome(self.opentsdb_addr)
    THEN [opts EXCEPT !.opentsdb.addr = Unwrap(self.opentsdb_addr)]
    ELSE opts

\* the flag assigned whether or not it is given
ApplyInfluxdbEnable_Unconditional(self, opts) ==
    [opts EXCEPT !.influxdb = [enable |-> self.influxdb_enable]]

\* lines 206-208
ApplyInfluxdbEnable(self, opts) ==
    IF self.influxdb_enable
    THEN [opts EXCEPT !.influxdb = [enable |-> TRUE]]
    ELSE opts

\* a bundle whose shared data_home is not taken from the storage-tier options
MixOptionsOf_DefaultHome(opts) ==
    LET datanode == datanode_options(opts)
    IN  [procedure      |-> opts.procedure,
         metadata_store |-> opts.metadata_store,
         data_home      |-> StorageConfigDefault.data_home,
         frontend       |-> frontend_options(opts),
         datanode       |-> datanode,
         logging        |-> opts.logging]

\* lines 210-223
MixOptionsOf(opts) ==
    LET datanode == datanode_options(opts)
    IN  [procedure      |-> opts.procedure,
         metadata_store |-> opts.metadata_store,
         data_home      |-> datanode.storage.data_home,
         frontend       |-> frontend_options(opts),
         datanode       |-> datanode,
         logging        |-> opts.logging]

\* The local `opts` when load_options reaches line 210, or the error it
\* returned before.
ResolveOptions(self, f, e) ==
    LET layered == LoadLayeredOptions(self.config_file, f, e)
    IN  IF ~layered.ok THEN layered
        ELSE IF RpcAddrConflict(self)
        THEN Err([variant |-> "IllegalConfig", source |-> "rpc_addr"])
        ELSE LET tls_opts == TlsOptionNew(self.tls_mode, self.tls_cert_path,
                                          self.tls_key_path)
                 o1 == ApplyHttpAddr(self, SetMode(layered.val))
                 o2 == ApplyRpcAddr(self, o1)
                 o3 == ApplyMysqlAddr(self, o2, tls_opts)
                 o4 == ApplyPostgresAddr(self, o3, tls_opts)
                 o5 == ApplyOpentsdbAddr(self, o4)
             IN  Ok(ApplyInfluxdbEnable(self, o5))

StandaloneLoadOptions(self, f, e) ==
    LET r == ResolveOptions(self, f, e)
    IN  IF r.ok THEN Ok([tag |-> "Standalone", mix |-> MixOptionsOf(r.val)])
        ELSE r

\* a REPL whose options come back in the standalone variant
ReplLoadOptions_WrongVariant(self) == Ok([tag |-> "Standalone", logging |-> LoggingOptionsDefault])

\* REPL::load_options
ReplLoadOptions(self) == Ok([tag |-> "Cli", logging |-> LoggingOptionsDefault])

(***************************************************************************)
(* The launches explored: a launch gives at most MaxSettings settings,     *)
(* each on the command line, in the config file or in the environment.     *)
(***************************************************************************)
It(src, key, val) == [src |-> src, key |-> key, val |-> val]

CliItems ==
    {It("cli", "http_addr", "0.0.0.0:5002"),
     It("cli", "rpc_addr", "0.0.0.0:5002"),
     It("cli", "rpc_addr", DatanodeDefaultRpcAddr),
     It("cli", "mysql_addr", "0.0.0.0:5002"),
     It("cli", "postgres_addr", "0.0.0.0:5002"),
     It("cli", "opentsdb_addr", "0.0.0.0:5002"),
     It("cli", "influxdb_enable", "true"),
     It("cli", "enable_memory_catalog", "true"),
     It("cli", "tls_mode", "require"),
     It("cli", "tls_cert_path", "/cli/cert.pem"),
     It("cli", "tls_key_path", "/cli/key.pem"),
     It("cli", "user_provider", "static_user_provider:cmd:u=p"),
     It("cli", "level", "engram=loud"),
     It("cli", "level", "debug")}

FileItems ==
    {It("file", "<unparsable>", ""),
     It("file", "mode", "distributed"),
     It("file", "http.addr", "0.0.0.0:5000"),
     It("file", "grpc.addr", "0.0.0.0:5000"),
     It("file", "grpc.addr", DatanodeDefaultRpcAddr),
     It("file", "mysql.tls.mode", "prefer"),
     It("file", "postgres.tls.mode", "prefer"),
     It("file", "influxdb.enable", "true"),
     It("file", "influxdb.enable", "maybe"),
     It("file", "user_provider", "static_user_provider:file:/u"),
     It("file", "storage.data_home", "/var/engram/")}

EnvItems ==
    {It("env", "http.addr", "0.0.0.0:5001"),
     It("env", "grpc.addr", DatanodeDefaultRpcAddr),
     It("env", "mysql.tls.mode", "verify_ca"),
     It("env", "influxdb.enable", "true"),
     It("env", "user_provider", "static_user_provider:env:/u")}

Items == CliItems \cup FileItems \cup EnvItems

RECURSIVE SubsetsUpTo(_, _)
SubsetsUpTo(S, n) ==
    IF n = 0 THEN {{}}
    ELSE LET P == SubsetsUpTo(S, n - 1)
         IN  P \cup {p \cup {x} : p \in P, x \in S}

\* No field is given twice by the same source.
Consistent(S) ==
    \A a, b \in S : (a.src = b.src /\ a.key = b.key) => a = b

Launches == {S \in SubsetsUpTo(Items, MaxSettings) : Consistent(S)}

Flag(S, key) ==
    IF \E i \in S : i.src = "cli" /\ i.key = key
    THEN Some((CHOOSE i \in S : i.src = "cli" /\ i.key = key).val)
    ELSE None

LayerOf(S, src) ==
    LET ks == {i.key : i \in {j \in S : j.src = src /\ j.key # "<unparsable>"}}
    IN  [k \in ks |-> (CHOOSE i \in S : i.src = src /\ i.key = k).val]

\* struct Standalone as clap fills it
StandaloneArgs(S) ==
    [http_addr             |-> Flag(S, "http_addr"),
     rpc_addr              |-> Flag(S, "rpc_addr"),
     mysql_addr            |-> Flag(S, "mysql_addr"),
     postgres_addr         |-> Flag(S, "postgres_addr"),
     opentsdb_addr         |-> Flag(S, "opentsdb_addr"),
     influxdb_enable       |-> IsSome(Flag(S, "influxdb_enable")),
     config_file           |-> IF \E i \in S : i.src = "file"
                               THEN Some("engram.toml") ELSE None,
     enable_memory_catalog |-> IsSome(Flag(S, "enable_memory_catalog")),
     tls_mode              |-> Flag(S, "tls_mode"),
     tls_cert_path         |-> Flag(S, "tls_cert_path"),
     tls_key_path          |-> Flag(S, "tls_key_path"),
     user_provider         |-> Flag(S, "user_provider")]

\* struct REPL
ReplArgs ==
    [grpc_addr |-> "127.0.0.1:4001", meta_addr |-> None, disable_helper |-> FALSE]

\* struct Engram; dir and level are positional, so a level comes with a dir
EngramOf(S, kind) ==
    [dir     |-> IF IsSome(Flag(S, "level")) THEN Some("/tmp/engram") ELSE None,
     level   |-> Flag(S, "level"),
     command |-> IF kind = "Standalone"
                 THEN [kind |-> "Standalone", args |-> StandaloneArgs(S)]
                 ELSE [kind |-> "REPL", args |-> ReplArgs]]

FileOf(S) ==
    [parsable |-> ~(\E i \in S : i.src = "file" /\ i.key = "<unparsable>"),
     kv       |-> LayerOf(S, "file")]

(***************************************************************************)
(* panic_hook.rs.  A hook is the platform's default one or a closure made  *)
(* by set_panic_hook, which owns the hook it replaced.                     *)
(***************************************************************************)
PlatformHook == [kind |-> "platform"]

\* the closure handing over to the previous hook before its own work
HookBody_DefaultFirst == <<"default_hook", "error!", "increment_counter">>

\* lines 9-25: what the closure does, in order
HookBody == <<"error!", "increment_counter", "default_hook">>

\* lines 8-9: take_hook, then set_hook with a closure that captures it
set_panic_hook(current) == [kind |-> "diag", default_hook |-> current]

RECURSIVE Flatten(_)
Flatten(ss) == IF ss = <<>> THEN <<>> ELSE Head(ss) \o Flatten(Tail(ss))

\* The steps taken when hook h is invoked for one panic.
RECURSIVE RunHook(_)
RunHook(h) ==
    IF h.kind = "platform" THEN <<"platform">>
    ELSE Flatten([i \in 1..Len(HookBody) |->
            IF HookBody[i] = "default_hook" THEN RunHook(h.default_hook)
            ELSE <<HookBody[i]>>])

\* The number of set_panic_hook closures in the chain of h.
RECURSIVE Depth(_)
Depth(h) == IF h.kind = "platform" THEN 0 ELSE 1 + Depth(h.default_hook)

Count(x, seq) == Cardinality({i \in 1..Len(seq) : seq[i] = x})

\* One fatal event: the installed hook runs.
OnPanic ==
    LET trace == RunHook(hook)
    IN  /\ panics' = Append(panics, [trace |-> trace, installed |-> Depth(hook),
                                      logging |-> logging_ready])
        /\ records' = records + Count("error!", trace)
        /\ panic_counter' = panic_counter + Count("increment_counter", trace)

(***************************************************************************)
(* bin/engram.rs: main and Commands::execute.                              *)
(***************************************************************************)
\* line 59-63: the level string parses as filter::Targets
ParsesAsTargets(level) ==
    (IF IsSome(level) THEN Unwrap(level) ELSE "info") \in {"info", "debug"}

\* line 57
MainSetPanicHook ==
    /\ pc = "set_panic_hook"
    /\ hook' = set_panic_hook(hook)
    /\ pc' = "filter"
    /\ UNCHANGED <<cli, file, env, logging_ready, panics, panic_counter, records,
                   resolved, loaded, calls, art, failed, result>>

\* lines 59-63
MainParseFilter ==
    /\ pc = "filter"
    /\ ParsesAsTargets(cli.level)
    /\ pc' = "subscriber"
    /\ UNCHANGED <<cli, file, env, hook, logging_ready, panics, panic_counter,
                   records, resolved, loaded, calls, art, failed, result>>

\* line 63: expect panics
MainFilterPanic ==
    /\ pc = "filter"
    /\ ~ParsesAsTargets(cli.level)
    /\ OnPanic
    /\ pc' = "panicked"
    /\ UNCHANGED <<cli, file, env, hook, logging_ready, resolved, loaded, calls, art,
                   failed, result>>

\* lines 65-72
MainInitLogging ==
    /\ pc = "subscriber"
    /\ logging_ready' = TRUE
    /\ pc' = "load_options"
    /\ UNCHANGED <<cli, file, env, hook, panics, panic_counter, records, resolved, loaded,
                   calls, art, failed, result>>

\* Commands::execute, lines 33-36
LoadOptions ==
    /\ pc = "load_options"
    /\ LET opts == IF cli.command.kind = "Standalone"
                   THEN StandaloneLoadOptions(cli.command.args, file, env)
                   ELSE ReplLoadOptions(cli.command.args)
       IN  /\ loaded' = Some(opts)
           /\ resolved' = IF cli.command.kind = "Standalone" /\ opts.ok
                          THEN Some(ResolveOptions(cli.command.args, file, env).val)
                          ELSE None
           /\ IF opts.ok
              THEN pc' = "dispatch" /\ UNCHANGED result
              ELSE pc' = "exit" /\ result' = Some(opts)
    /\ UNCHANGED <<cli, file, env, hook, logging_ready, panics, panic_counter,
                   records, calls, art, failed>>

\* Commands::execute, lines 37-41: the arm of the match that is taken
MatchArm(command, opts) ==
    CASE command.kind = "Standalone" /\ opts.tag = "Standalone" -> "PluginSetup"
      [] command.kind = "REPL" /\ opts.tag = "Cli" -> "repl"
      [] OTHER -> "unreachable"

Dispatch ==
    /\ pc = "dispatch"
    /\ LET arm == MatchArm(cli.command, Unwrap(loaded).val)
       IN  IF arm = "unreachable"
           THEN /\ OnPanic
                /\ pc' = "panicked"
           ELSE /\ pc' = arm
                /\ UNCHANGED <<panics, panic_counter, records>>
    /\ UNCHANGED <<cli, file, env, hook, logging_ready, resolved, loaded, calls, art,
                   failed, result>>

\* REPL::execute (repl.rs lines 20-28): the attach client runs and returns
ReplExecute ==
    /\ pc = "repl"
    /\ \E ok \in BOOLEAN :
          result' = Some(IF ok THEN Ok("unit")
                         ELSE Err([variant |-> "Repl", source |-> "repl"]))
    /\ pc' = "exit"
    /\ UNCHANGED <<cli, file, env, hook, logging_ready, panics, panic_counter,
                   records, resolved, loaded, calls, art, failed>>

(***************************************************************************)
(* Standalone::execute.                                                    *)
(***************************************************************************)
\* execute with the catalog initialised before the datanode is built
ExecuteOrder_CatalogFirst ==
    <<"PluginSetup", "DirectoryEnsure", "MetadataBootstrap", "CatalogInit",
      "StorageBuild", "FrontendBuild", "ServerWiring", "StorageStart",
      "ProcedureStart", "FrontendStart">>

\* execute with the frontend started right after its servers are built
ExecuteOrder_FrontendStartEarly ==
    <<"PluginSetup", "DirectoryEnsure", "MetadataBootstrap", "StorageBuild",
      "CatalogInit", "FrontendBuild", "ServerWiring", "FrontendStart",
      "StorageStart", "ProcedureStart">>

\* The fallible calls of execute in program order (lines 229-295).
ExecuteOrder ==
    <<"PluginSetup", "DirectoryEnsure", "MetadataBootstrap", "StorageBuild",
      "CatalogInit", "FrontendBuild", "ServerWiring", "StorageStart",
      "ProcedureStart", "FrontendStart">>

IndexOf(stage) == CHOOSE i \in 1..Len(ExecuteOrder) : ExecuteOrder[i] = stage

\* Where execute goes when the call of `stage` returned Ok.
OnOk(stage) ==
    IF IndexOf(stage) = Len(ExecuteOrder) THEN "exit"
    ELSE ExecuteOrder[IndexOf(stage) + 1]

\* an Err that is dropped instead of returned
OnErr_Continue(stage) ==
    IF \E i \in 1..(Len(ExecuteOrder) - 1) : ExecuteOrder[i] = stage
    THEN ExecuteOrder[(CHOOSE i \in 1..Len(ExecuteOrder) : ExecuteOrder[i] = stage) + 1]
    ELSE "exit"

\* an Err after which the same call is made again
OnErr_Retry(stage) == stage

\* The `?` after every call: an Err returns from execute.
OnErr(stage) == "exit"

\* The snafu context each call's error is wrapped in.
ErrorContext(stage) ==
    CASE stage = "PluginSetup" -> "StartFrontend"
      [] stage = "DirectoryEnsure" -> "CreateDir"
      [] stage = "MetadataBootstrap" -> "StartFrontend"
      [] stage = "StorageBuild" -> "StartDatanode"
      [] stage = "CatalogInit" -> "InitMetadata"
      [] stage = "FrontendBuild" -> "StartFrontend"
      [] stage = "ServerWiring" -> "StartFrontend"
      [] stage = "StorageStart" -> "StartDatanode"
      [] stage = "ProcedureStart" -> "StartProcedureManager"
      [] stage = "FrontendStart" -> "StartFrontend"

\* common_config::metadata_store_dir
metadata_store_dir(data_home) == <<data_home, "metadata">>

ArtInit ==
    [plugins           |-> "none",
     data_dir          |-> None,
     metadata_dir      |-> None,
     kv_backend        |-> "none",
     procedure_manager |-> "none",
     datanode          |-> "none",
     dn_storage_home   |-> None,
     region_server     |-> "none",
     catalog_manager   |-> "none",
     frontend          |-> "none",
     fe_opts           |-> None,
     servers_opts      |-> None]

\* an error path that tears down what was built and started
Unwind_Rollback(handles) == ArtInit

\* The handles when a call returned Err and execute returns through `?`:
\* no stop, shutdown or undo is called on the way out.
Unwind(handles) == handles

\* One fallible call of execute: `before` is what happens up to and including
\* the call, `after` what the call leaves behind when it returns Ok.
Call(stage, before, after) ==
    /\ calls' = Append(calls, stage)
    /\ \E ok \in BOOLEAN :
          IF ok
          THEN /\ art' = after
               /\ pc' = OnOk(stage)
               /\ failed' = failed
               /\ result' = IF pc' = "exit" THEN Some(Ok("unit")) ELSE result
          ELSE /\ art' = Unwind(before)
               /\ pc' = OnErr(stage)
               /\ failed' = Append(failed, stage)
               /\ result' = IF pc' = "exit"
                            THEN Some(Err([variant |-> ErrorContext(stage),
                                           source |-> stage]))
                            ELSE result
    /\ UNCHANGED <<cli, file, env, hook, logging_ready, panics, panic_counter,
                   records, resolved, loaded>>

Mix == Unwrap(loaded).val.mix

\* What setup_frontend_plugins may leave in the options it is given by
\* `&mut`: the same options, or options with a user provider filled in.
PluginEdits(fe_opts) ==
    {fe_opts, [fe_opts EXCEPT !.user_provider = Some("static_user_provider")]}

\* lines 227-231: plugins::setup_frontend_plugins on a clone of opts.frontend
PluginSetup ==
    /\ pc = "PluginSetup"
    /\ \E edited \in PluginEdits(Mix.frontend) :
          Call("PluginSetup", art, [art EXCEPT !.plugins = "set", !.fe_opts = Some(edited)])

\* lines 240-242: fs::create_dir_all(opts.data_home)
DirectoryEnsure ==
    /\ pc = "DirectoryEnsure"
    /\ Call("DirectoryEnsure", art, [art EXCEPT !.data_dir = Some(Mix.data_home)])

\* lines 244-251: FeInstance::try_build_standalone_components
MetadataBootstrap ==
    /\ pc = "MetadataBootstrap"
    /\ Call("MetadataBootstrap",
         [art EXCEPT !.metadata_dir = Some(metadata_store_dir(Mix.data_home))],
         [art EXCEPT !.metadata_dir = Some(metadata_store_dir(Mix.data_home)),
                     !.kv_backend = "built",
                     !.procedure_manager = "built"])

\* lines 253-261: DatanodeBuilder::new(dn_opts, kv_backend).build(), then
\* datanode.region_server()
StorageBuild ==
    /\ pc = "StorageBuild"
    /\ Call("StorageBuild",
         [art EXCEPT !.dn_storage_home = Some(Mix.datanode.storage.data_home)],
         [art EXCEPT !.dn_storage_home = Some(Mix.datanode.storage.data_home),
                     !.datanode = "built",
                     !.region_server = "built"])

\* lines 263-273: KvBackendCatalogManager::new, then
\* table_metadata_manager_ref().init()
CatalogInit ==
    /\ pc = "CatalogInit"
    /\ Call("CatalogInit",
         [art EXCEPT !.catalog_manager = "new"],
         [art EXCEPT !.catalog_manager = "initialized"])

\* lines 276-283: build_frontend
FrontendBuild ==
    /\ pc = "FrontendBuild"
    /\ Call("FrontendBuild", art, [art EXCEPT !.frontend = "built"])

\* FrontendInstance::build_servers: the listeners are constructed from the
\* options, none accepts connections yet
build_servers(frontend) == "wired"

\* a wiring that is given the options the plugins worked on
ServersOptions_PluginCopy(opts, fe_opts) == [opts EXCEPT !.frontend = fe_opts]

\* line 286: the argument of build_servers is the bundle `opts` itself
ServersOptions(opts, fe_opts) == opts

\* lines 285-288: frontend.build_servers(opts)
ServerWiring ==
    /\ pc = "ServerWiring"
    /\ LET given == [art EXCEPT !.servers_opts = Some(ServersOptions(Mix, Unwrap(art.fe_opts)))]
       IN  Call("ServerWiring", given,
                [given EXCEPT !.frontend = build_servers(art.frontend)])

\* line 290
StorageStart ==
    /\ pc = "StorageStart"
    /\ Call("StorageStart", art, [art EXCEPT !.datanode = "started"])

\* lines 291-294
ProcedureStart ==
    /\ pc = "ProcedureStart"
    /\ Call("ProcedureStart", art, [art EXCEPT !.procedure_manager = "started"])

\* line 295: the frontend starts serving
FrontendStart ==
    /\ pc = "FrontendStart"
    /\ Call("FrontendStart", art, [art EXCEPT !.frontend = "started"])

(***************************************************************************)
(* The process launched once: main, from the parsed command line on.       *)
(***************************************************************************)
InitFrom(launches) ==
    /\ \E S \in launches, kind \in {"Standalone", "REPL"} :
          /\ kind = "REPL" => \A i \in S : i.key = "level"
          /\ cli = EngramOf(S, kind)
          /\ file = FileOf(S)
          /\ env = LayerOf(S, "env")
    /\ pc = "set_panic_hook"
    /\ hook = PlatformHook
    /\ logging_ready = FALSE
    /\ panics = <<>>
    /\ panic_counter = 0
    /\ records = 0
    /\ resolved = None
    /\ loaded = None
    /\ calls = <<>>
    /\ art = ArtInit
    /\ failed = <<>>
    /\ result = None

Init == InitFrom(Launches)

Next ==
    \/ MainSetPanicHook
    \/ MainParseFilter
    \/ MainFilterPanic
    \/ MainInitLogging
    \/ LoadOptions
    \/ Dispatch
    \/ ReplExecute
    \/ PluginSetup
    \/ DirectoryEnsure
    \/ MetadataBootstrap
    \/ StorageBuild
    \/ CatalogInit
    \/ FrontendBuild
    \/ ServerWiring
    \/ StorageStart
    \/ ProcedureStart
    \/ FrontendStart

Spec == Init /\ [][Next]_vars

(***************************************************************************)
(* The panic hook used as a library: set_panic_hook is public and may be   *)
(* called any number of times; panics of worker threads do not end the     *)
(* process.                                                                *)
(***************************************************************************)
CallSetPanicHook ==
    /\ pc = "lib"
    /\ Depth(hook) < MaxInstalls
    /\ hook' = set_panic_hook(hook)
    /\ UNCHANGED <<cli, file, env, pc, logging_ready, panics, panic_counter,
                   records, resolved, loaded, calls, art, failed, result>>

FatalEvent ==
    /\ pc = "lib"
    /\ Len(panics) < MaxPanics
    /\ OnPanic
    /\ UNCHANGED <<cli, file, env, pc, hook, logging_ready, resolved, loaded, calls, art,
                   failed, result>>

InitHook ==
    /\ cli = EngramOf({}, "Standalone")
    /\ file = FileOf({})
    /\ env = LayerOf({}, "env")
    /\ pc = "lib"
    /\ hook = PlatformHook
    /\ logging_ready \in BOOLEAN
    /\ panics = <<>>
    /\ panic_counter = 0
    /\ records = 0
    /\ resolved = None
    /\ loaded = None
    /\ calls = <<>>
    /\ art = ArtInit
    /\ failed = <<>>
    /\ result = None

NextHook == CallSetPanicHook \/ FatalEvent

HookSpec == InitHook /\ [][NextHook]_vars

(***************************************************************************)
(* Properties of the startup sequence.                                     *)
(***************************************************************************)
Called(stage) == \E i \in 1..Len(calls) : calls[i] = stage

Stages ==
    <<"DirectoryEnsure", "MetadataBootstrap", "StorageBuild", "CatalogInit",
      "FrontendBuild", "ServerWiring", "StorageStart", "ProcedureStart",
      "FrontendStart">>

IsStage(c) == \E i \in 1..Len(Stages) : Stages[i] = c

StageCalls == SelectSeq(calls, IsStage)

IsPrefix(a, b) == Len(a) <= Len(b) /\ SubSeq(b, 1, Len(a)) = a

ReturnedOk == result = Some(Ok("unit"))

\* C1: while no call has failed, the stages are called in the order
\* DirectoryEnsure, MetadataBootstrap, StorageBuild, CatalogInit,
\* FrontendBuild, ServerWiring, StorageStart, ProcedureStart, FrontendStart,
\* all nine of them when execute returns; and a stage is called only when
\* the handles it consumes have been produced by a call that succeeded.
C1_StartupOrder ==
    /\ failed = <<>> => IsPrefix(StageCalls, Stages)
    /\ (failed = <<>> /\ pc = "exit" /\ calls # <<>>) => StageCalls = Stages
    /\ Called("MetadataBootstrap") => IsSome(art.data_dir)
    /\ Called("StorageBuild") => art.kv_backend # "none"
    /\ Called("CatalogInit") =>
          /\ art.kv_backend # "none"
          /\ art.datanode # "none"
          /\ art.region_server # "none"
    /\ Called("FrontendBuild") =>
          /\ art.plugins = "set"
          /\ art.procedure_manager # "none"
          /\ art.region_server # "none"
          /\ art.catalog_manager = "initialized"
    /\ Called("ServerWiring") => art.frontend # "none"
    /\ Called("StorageStart") => art.datanode # "none"
    /\ Called("ProcedureStart") => art.procedure_manager # "none"
    /\ Called("FrontendStart") => art.frontend \in {"wired", "started"}

C1_Witness ==
    /\ pc = "exit"
    /\ failed = <<>>
    /\ Len(calls) = 10
    /\ art.frontend = "started"

\* C2: when a stage fails it is the last call made, no call is made twice,
\* execute returns the error of that stage, and execute returns Ok only
\* when all nine stages were called and none failed.
C2_FailFast ==
    /\ Len(failed) <= 1
    /\ \A i, j \in 1..Len(calls) : calls[i] = calls[j] => i = j
    /\ failed # <<>> =>
          /\ calls[Len(calls)] = failed[1]
          /\ pc = "exit"
          /\ IsSome(result)
          /\ ~Unwrap(result).ok
          /\ Unwrap(result).err.source = failed[1]
    /\ (ReturnedOk /\ cli.command.kind = "Standalone") =>
          /\ failed = <<>>
          /\ \A i \in 1..Len(Stages) : Called(Stages[i])

C2_Witness ==
    /\ failed = <<"StorageBuild">>
    /\ pc = "exit"
    /\ ~Unwrap(result).ok

\* C3: when the frontend's start has been called, the datanode and the
\* procedure manager have been started; after build_servers and before
\* that call the frontend does not serve.
C3_FrontendStartsLast ==
    /\ Called("FrontendStart") =>
          /\ art.datanode = "started"
          /\ art.procedure_manager = "started"
    /\ art.frontend = "started" =>
          /\ art.datanode = "started"
          /\ art.procedure_manager = "started"
    /\ (Called("ServerWiring") /\ ~Called("FrontendStart")) =>
          art.frontend # "started"

C3_Witness ==
    /\ art.frontend = "started"
    /\ Called("ServerWiring")

(***************************************************************************)
(* Properties of option loading.                                           *)
(***************************************************************************)
IsStandalone == cli.command.kind = "Standalone"
Args == cli.command.args
LoadReturned == IsSome(loaded)
LoadedOk == IsSome(loaded) /\ Unwrap(loaded).ok
LoadError == Unwrap(loaded).err.variant
Resolved == Unwrap(resolved)
FileGives(k) == IsSome(Args.config_file) /\ k \in DOMAIN file.kv
ConflictingRpcAddr ==
    IsStandalone /\ Args.rpc_addr = Some(DatanodeDefaultRpcAddr)
InExecute == \E i \in 1..Len(ExecuteOrder) : pc = ExecuteOrder[i]

\* C4 (as claimed): with --rpc-addr equal to the datanode's default address
\* load_options fails with the illegal-config error whatever the other
\* inputs are, and execute is never entered.
C4_AsClaimed ==
    ConflictingRpcAddr =>
        /\ calls = <<>>
        /\ ~InExecute
        /\ LoadReturned => (~LoadedOk /\ LoadError = "IllegalConfig")

\* C4 (amended): with --rpc-addr equal to the datanode's default address
\* load_options fails, returns no bundle, and execute is never entered; the
\* error is the illegal-config one whenever the layered load of file and
\* environment succeeds, and the load error otherwise.
C4_ConflictRejected ==
    ConflictingRpcAddr =>
        /\ calls = <<>>
        /\ ~InExecute
        /\ resolved = None
        /\ LoadReturned =>
              /\ ~LoadedOk
              /\ pc = "exit"
              /\ result = loaded
              /\ LoadError =
                    IF LoadLayeredOptions(Args.config_file, file, env).ok
                    THEN "IllegalConfig" ELSE "LoadLayeredConfig"

C4_Witness ==
    /\ ConflictingRpcAddr
    /\ LoadReturned
    /\ LoadError = "IllegalConfig"
    /\ IsSome(Args.config_file)
    /\ pc = "exit"

\* C5: every bundle load_options returns has a frontend gRPC address other
\* than the datanode's default RPC address.
C5_NoReservedAddr ==
    (IsStandalone /\ LoadedOk) =>
        Mix.frontend.grpc.addr # DatanodeDefaultRpcAddr

\* C6: a field given both in the config file and on the command line has
\* the command-line value in the resolved options.
C6_CommandLineWins ==
    (IsStandalone /\ LoadedOk) =>
        /\ (FileGives("http.addr") /\ IsSome(Args.http_addr)) =>
              Resolved.http.addr = Unwrap(Args.http_addr)
        /\ (FileGives("grpc.addr") /\ IsSome(Args.rpc_addr)) =>
              Resolved.grpc.addr = Unwrap(Args.rpc_addr)
        /\ (FileGives("influxdb.enable") /\ Args.influxdb_enable) =>
              Resolved.influxdb.enable
        /\ (FileGives("mysql.tls.mode") /\ IsSome(Args.tls_mode)) =>
              Resolved.mysql.tls.mode = Unwrap(Args.tls_mode)
        /\ (FileGives("postgres.tls.mode") /\ IsSome(Args.tls_mode)) =>
              Resolved.postgres.tls.mode = Unwrap(Args.tls_mode)
        /\ (FileGives("user_provider") /\ IsSome(Args.user_provider)) =>
              Resolved.user_provider = Args.user_provider

\* C7: with no config file, no environment variable and no override on the
\* command line, load_options succeeds and every field of the resolved
\* options has its built-in default.
NoSettings ==
    /\ IsStandalone
    /\ Args = StandaloneArgs({})
    /\ env = EmptyLayer

C7_DefaultsComplete ==
    (NoSettings /\ LoadReturned) =>
        /\ LoadedOk
        /\ resolved = Some(StandaloneOptionsDefault)
        /\ DOMAIN Resolved = DOMAIN StandaloneOptionsDefault
        /\ Mix.data_home = StorageConfigDefault.data_home
        /\ Mix.frontend.grpc = GrpcOptionsDefault
        /\ Mix.frontend.mode = "Standalone"

C7_Witness ==
    /\ NoSettings
    /\ LoadedOk
    /\ pc = "dispatch"

\* C8: TLS settings given on the command line are on both the MySQL and the
\* Postgres options of the bundle, whatever the other flags are.
C8_TlsOnBothListeners ==
    (IsStandalone /\ LoadedOk /\
     (IsSome(Args.tls_mode) \/ IsSome(Args.tls_cert_path) \/ IsSome(Args.tls_key_path))) =>
        LET tls == TlsOptionNew(Args.tls_mode, Args.tls_cert_path, Args.tls_key_path)
        IN  /\ Mix.frontend.mysql.tls = tls
            /\ Mix.frontend.postgres.tls = tls

(***************************************************************************)
(* Properties of the panic hook.                                           *)
(***************************************************************************)
FirstIndex(x, seq) == CHOOSE i \in 1..Len(seq) : seq[i] = x /\ \A j \in 1..(i - 1) : seq[j] # x

\* C9: once set_panic_hook has been called (any number of times), a panic
\* runs the platform's handler exactly once, and only after the hook has
\* emitted its record and incremented the counter.
C9_PlatformHandlerOnceAndLast ==
    \A i \in 1..Len(panics) :
        LET t == panics[i].trace
        IN  panics[i].installed >= 1 =>
              /\ Count("platform", t) = 1
              /\ Count("error!", t) >= 1
              /\ Count("increment_counter", t) >= 1
              /\ \A j \in 1..Len(t) :
                    t[j] \in {"error!", "increment_counter"} =>
                        j < FirstIndex("platform", t)
              /\ FirstIndex("error!", t) < FirstIndex("increment_counter", t)

C9_Witness ==
    \E i \in 1..Len(panics) :
        /\ panics[i].installed = 2
        /\ Count("platform", panics[i].trace) = 1

\* C10: however often set_panic_hook has been called, a panic emits exactly
\* one record and adds exactly 1 to the counter, so the counter is the
\* number of panics that happened with the hook installed.
C10_OneRecordPerPanic ==
    /\ \A i \in 1..Len(panics) :
          panics[i].installed >= 1 =>
              /\ Count("error!", panics[i].trace) = 1
              /\ Count("increment_counter", panics[i].trace) = 1
    /\ panic_counter = Cardinality({i \in 1..Len(panics) : panics[i].installed >= 1})
    /\ records = panic_counter

(***************************************************************************)
(* Properties of error reporting, frames and termination.                  *)
(***************************************************************************)
\* C11: the error variant execute returns when a stage fails is the variant
\* of no other stage, so the variant identifies the stage that failed.
C11_DistinctVariants ==
    (failed # <<>> /\ IsSome(result) /\ IsStage(failed[1])) =>
        \A i \in 1..Len(Stages) :
            Stages[i] # failed[1] =>
                ErrorContext(Stages[i]) # Unwrap(result).err.variant

\* The options as layered from defaults, file and environment, before any
\* command-line override.
Layered == LoadLayeredOptions(Args.config_file, file, env).val

NoTlsFlags ==
    /\ Args.tls_mode = None
    /\ Args.tls_cert_path = None
    /\ Args.tls_key_path = None

\* C12: a flag that is absent leaves its field as layered from file and
\* environment; in particular with no TLS flag the MySQL and Postgres TLS
\* options of the bundle are the layered ones, also when --mysql-addr or
\* --postgres-addr is given.
C12_AbsentFlagsLeaveFields ==
    (IsStandalone /\ LoadedOk) =>
        /\ NoTlsFlags =>
              /\ Mix.frontend.mysql.tls = Layered.mysql.tls
              /\ Mix.frontend.postgres.tls = Layered.postgres.tls
        /\ Args.http_addr = None => Resolved.http = Layered.http
        /\ Args.rpc_addr = None => Resolved.grpc = Layered.grpc
        /\ Args.mysql_addr = None => Resolved.mysql = Layered.mysql
        /\ Args.postgres_addr = None => Resolved.postgres = Layered.postgres
        /\ Args.opentsdb_addr = None => Resolved.opentsdb = Layered.opentsdb
        /\ ~Args.influxdb_enable => Resolved.influxdb = Layered.influxdb
        /\ Resolved.wal = Layered.wal
        /\ Resolved.storage = Layered.storage
        /\ Resolved.prom_store = Layered.prom_store

\* What load_options returns for the same launch with --influxdb-enable
\* switched.
OtherInfluxdbFlag ==
    StandaloneLoadOptions([Args EXCEPT !.influxdb_enable = ~@], file, env)

\* C13: two invocations of load_options that differ only in
\* --influxdb-enable return bundles that differ at most in influxdb.enable,
\* which is true with the flag and the layered value without it.
C13_InfluxdbFlagPureOverride ==
    (IsStandalone /\ LoadedOk) =>
        /\ OtherInfluxdbFlag.ok
        /\ [OtherInfluxdbFlag.val.mix EXCEPT !.frontend.influxdb.enable = TRUE] =
              [Mix EXCEPT !.frontend.influxdb.enable = TRUE]
        /\ DOMAIN Mix.frontend.influxdb = {"enable"}
        /\ Mix.frontend.influxdb.enable =
              IF Args.influxdb_enable THEN TRUE ELSE Layered.influxdb.enable

C13_Witness ==
    /\ IsStandalone
    /\ LoadedOk
    /\ Args.influxdb_enable
    /\ Mix.frontend.influxdb.enable
    /\ ~Layered.influxdb.enable
    /\ ~OtherInfluxdbFlag.val.mix.frontend.influxdb.enable

\* C14: whenever the installed hook runs for a fatal error, the tracing
\* subscriber has been set, so the record it emits is logged.
C14_LoggingBeforeHookRuns ==
    \A i \in 1..Len(panics) :
        (panics[i].installed >= 1 /\ Count("error!", panics[i].trace) >= 1) =>
            panics[i].logging

Succeeded(stage) ==
    Called(stage) /\ ~(\E i \in 1..Len(failed) : failed[i] = stage)

\* C15: what a stage that succeeded has built or started stays so when a
\* later stage fails, and execute calls nothing but the ten startup calls:
\* after FrontendStart fails the datanode and the procedure manager are
\* started and the data directory exists.
C15_NoRollback ==
    /\ \A i \in 1..Len(calls) :
          \E j \in 1..Len(ExecuteOrder) : calls[i] = ExecuteOrder[j]
    /\ Succeeded("DirectoryEnsure") => IsSome(art.data_dir)
    /\ Succeeded("MetadataBootstrap") =>
          /\ art.kv_backend = "built"
          /\ art.procedure_manager \in {"built", "started"}
    /\ Succeeded("StorageBuild") =>
          /\ art.datanode \in {"built", "started"}
          /\ art.region_server = "built"
    /\ Succeeded("CatalogInit") => art.catalog_manager = "initialized"
    /\ Succeeded("FrontendBuild") => art.frontend \in {"built", "wired", "started"}
    /\ Succeeded("ServerWiring") => art.frontend \in {"wired", "started"}
    /\ Succeeded("StorageStart") => art.datanode = "started"
    /\ Succeeded("ProcedureStart") => art.procedure_manager = "started"
    /\ failed = <<"FrontendStart">> =>
          /\ art.datanode = "started"
          /\ art.procedure_manager = "started"
          /\ art.frontend = "wired"
          /\ art.data_dir = Some(Mix.data_home)

C15_Witness ==
    /\ failed = <<"FrontendStart">>
    /\ pc = "exit"
    /\ art.datanode = "started"
    /\ art.procedure_manager = "started"

(***************************************************************************)
(* The launch under the assumption that every call that was made returns:  *)
(* main and the startup sequence keep taking steps while one is possible.  *)
(***************************************************************************)
FairLaunches == {S \in SubsetsUpTo(Items, MaxFairSettings) : Consistent(S)}

FairInit == InitFrom(FairLaunches)

FairSpec == FairInit /\ [][Next]_vars /\ WF_vars(Next)

FallibleCalls == <<"PluginSetup">> \o Stages

AllStarted ==
    /\ art.datanode = "started"
    /\ art.procedure_manager = "started"
    /\ art.frontend = "started"

\* C16: once execute is entered it ends: either everything is started and
\* Ok is returned, or the error of the failed call is returned to main; and
\* on the way no call is made twice.
C16_StartupTerminates ==
    /\ [](\A i, j \in 1..Len(calls) :
            i < j => /\ Called(calls[i]) /\ \E k \in 1..Len(FallibleCalls) : FallibleCalls[k] = calls[j]
                     /\ FirstIndex(calls[i], FallibleCalls) < FirstIndex(calls[j], FallibleCalls))
    /\ (pc = "PluginSetup") ~>
          (/\ pc = "exit"
           /\ IsSome(result)
           /\ IF Unwrap(result).ok
              THEN AllStarted /\ failed = <<>>
              ELSE failed # <<>> /\ Unwrap(result).err.source = failed[1])

C16_Witness ==
    /\ pc = "exit"
    /\ ReturnedOk
    /\ AllStarted

\* C17: the bundle's data_home is the storage.data_home of its storage-tier
\* options (and of the resolved configuration), so the directory created,
\* the place of the metadata store and the storage location of the storage
\* tier all lie under one data home.
C17_OneDataHome ==
    (IsStandalone /\ LoadedOk) =>
        /\ Mix.data_home = Mix.datanode.storage.data_home
        /\ Mix.data_home = Resolved.storage.data_home
        /\ IsSome(art.data_dir) => art.data_dir = Some(Mix.datanode.storage.data_home)
        /\ IsSome(art.metadata_dir) =>
              art.metadata_dir = Some(metadata_store_dir(Mix.datanode.storage.data_home))
        /\ IsSome(art.dn_storage_home) => art.dn_storage_home = art.data_dir
        /\ Succeeded("StorageBuild") =>
              /\ IsSome(art.data_dir) /\ IsSome(art.metadata_dir) /\ IsSome(art.dn_storage_home)
              /\ Unwrap(art.metadata_dir)[1] = Unwrap(art.data_dir)

C17_Witness ==
    /\ IsStandalone
    /\ FileGives("storage.data_home")
    /\ Succeeded("StorageBuild")
    /\ art.dn_storage_home = Some("/var/engram/")
    /\ art.data_dir = Some("/var/engram/")

\* C18: plugin setup is the first call of execute and works on its own copy
\* of the frontend options: when it fails nothing else has run and no
\* directory exists; when it succeeds and has changed its copy, the server
\* wiring is still given the bundle with the frontend options as
\* load_options projected them.
C18_PluginSetupFirstOnPrivateCopy ==
    /\ calls # <<>> => calls[1] = "PluginSetup"
    /\ Called("DirectoryEnsure") => Succeeded("PluginSetup") /\ calls[2] = "DirectoryEnsure"
    /\ failed = <<"PluginSetup">> =>
          /\ calls = <<"PluginSetup">>
          /\ art = ArtInit
          /\ pc = "exit"
    /\ Succeeded("PluginSetup") => IsSome(art.fe_opts)
    /\ Called("ServerWiring") =>
          /\ art.servers_opts = Some(Mix)
          /\ Unwrap(art.servers_opts).frontend = frontend_options(Resolved)
    /\ (IsStandalone /\ LoadedOk) => Mix.frontend = frontend_options(Resolved)

C18_Witness ==
    /\ Succeeded("ServerWiring")
    /\ art.fe_opts # Some(Mix.frontend)
    /\ art.servers_opts = Some(Mix)

\* configurations that agree with o on the wal and storage sections
OutsideStorage(o) ==
    {o,
     [o EXCEPT !.region_engine = <<"Mito">>],
     [o EXCEPT !.user_provider = Some("static_user_provider:cmd:u=p")],
     [o EXCEPT !.mode = "Distributed"],
     [o EXCEPT !.enable_telemetry = FALSE],
     [o EXCEPT !.http = [addr |-> "0.0.0.0:6000"]],
     [o EXCEPT !.grpc = [addr |-> "0.0.0.0:6001"]],
     [o EXCEPT !.mysql = [addr |-> "0.0.0.0:6002", tls |-> TlsOptionNew(Some("require"), None, None)]],
     [o EXCEPT !.postgres = [addr |-> "0.0.0.0:6003", tls |-> TlsOptionDefault]],
     [o EXCEPT !.opentsdb = [addr |-> "0.0.0.0:6242"]],
     [o EXCEPT !.influxdb = [enable |-> ~o.influxdb.enable]],
     [o EXCEPT !.prom_store = [enable |-> ~o.prom_store.enable]],
     [o EXCEPT !.metadata_store = [file_size |-> "1GB"]],
     [o EXCEPT !.procedure = [max_retry_times |-> "12"]],
     [o EXCEPT !.logging = [level |-> Some("debug")]]}

\* configurations that agree with o on mode and the seven listener sections
OutsideListeners(o) ==
    {o,
     [o EXCEPT !.region_engine = <<"Mito">>],
     [o EXCEPT !.user_provider = Some("static_user_provider:cmd:u=p")],
     [o EXCEPT !.enable_telemetry = FALSE],
     [o EXCEPT !.wal = [dir |-> Some("/other/wal")]],
     [o EXCEPT !.storage = [data_home |-> "/other/"]],
     [o EXCEPT !.metadata_store = [file_size |-> "1GB"]],
     [o EXCEPT !.procedure = [max_retry_times |-> "12"]],
     [o EXCEPT !.logging = [level |-> Some("debug")]]}

\* C19: the storage-tier options of the bundle are those of every
\* configuration with the same wal and storage sections (node id 0, the rest
\* the datanode's defaults), and the frontend options are those of every
\* configuration with the same mode and listener sections; the
\* --user-provider flag changes neither.  Stated of the bundle at the
\* moment load_options has returned it.
C19_ProjectionsReadOnlyTheirSections ==
    (IsStandalone /\ LoadedOk /\ pc = "dispatch") =>
        /\ \A o2 \in OutsideStorage(Resolved) : datanode_options(o2) = Mix.datanode
        /\ Mix.datanode.node_id = Some(0)
        /\ Mix.datanode.wal = Resolved.wal
        /\ Mix.datanode.storage = Resolved.storage
        /\ Mix.datanode.rpc_addr = DatanodeOptionsDefault.rpc_addr
        /\ Mix.datanode.region_engine = DatanodeOptionsDefault.region_engine
        /\ \A o2 \in OutsideListeners(Resolved) : frontend_options(o2) = Mix.frontend
        /\ Mix.frontend.user_provider = FrontendOptionsDefault.user_provider
        /\ LET other == [Args EXCEPT !.user_provider =
                            IF Args.user_provider = None
                            THEN Some("static_user_provider:cmd:u=p") ELSE None]
           IN  StandaloneLoadOptions(other, file, env) = Unwrap(loaded)

C19_Witness ==
    /\ IsStandalone
    /\ pc = "dispatch"
    /\ LoadedOk
    /\ Resolved.storage # StorageConfigDefault
    /\ Resolved.grpc # GrpcOptionsDefault
    /\ IsSome(Args.user_provider)

\* C20: the `_ => unreachable!()` arm is never taken: options that were
\* loaded successfully are of the variant of the subcommand that loaded them
\* (for the REPL loading never fails), no panic follows a load, and a launch
\* loads its options once, enters the startup sequence at most once and
\* takes no step after it has returned.
C20_UnreachableArmNeverTaken ==
    /\ [](LoadedOk =>
            /\ MatchArm(cli.command, Unwrap(loaded).val) # "unreachable"
            /\ IsStandalone <=> Unwrap(loaded).val.tag = "Standalone"
            /\ ~IsStandalone <=> Unwrap(loaded).val.tag = "Cli")
    /\ []((LoadReturned /\ ~IsStandalone) => LoadedOk)
    /\ [](LoadReturned => panics = <<>> /\ pc # "panicked")
    /\ [](Cardinality({i \in 1..Len(calls) : calls[i] = "PluginSetup"}) <= 1)
    /\ [][/\ LoadReturned => loaded' = loaded /\ resolved' = resolved
          /\ pc # "exit"
          /\ pc' = "PluginSetup" => pc = "dispatch"]_vars

C20_Witness ==
    /\ ~IsStandalone
    /\ pc = "repl"
    /\ LoadedOk
    /\ Unwrap(loaded).val.tag = "Cli"

====
